---- MODULE Spec2Model ----
(***************************************************************************)
(* State machine of the ZMK "auto layer" input processor.                  *)
(*                                                                         *)
(* The repository holds two near-duplicate implementations of the same     *)
(* driver: src/src/mouse/input_processor_auto_layer.c ("mouse") and        *)
(* src/unnamed/part_000 ("optimized").  Either may be the one compiled     *)
(* in, so `impl` is fixed by Init and every action follows the code of     *)
(* the implementation selected.                                            *)
(***************************************************************************)
EXTENDS Integers, Naturals, Sequences, FiniteSets, TLC

(* ------------------------------ bounds --------------------------------- *)
MaxTime == 3            \* k_uptime_get() ranges over 0..MaxTime
MaxDelay == 2           \* param2 (auto release delay) ranges over 0..MaxDelay
MaxIdle == 2            \* require_prior_idle_ms is 0 or MaxIdle
MaxRot == 1             \* exclusion lists are rotated by 0..MaxRot places
MaxLag == 1             \* a keycode event is delivered at most MaxLag after its timestamp

(* ------------------------- program constants --------------------------- *)
ZMK_KEYMAP_LAYERS_LEN == 2      \* MAX_LAYERS; the keymap modelled has two layers
SMALL_ARRAY_THRESHOLD == 8
SizeBits == 30          \* modelled width of size_t (TLC integers are 32-bit signed)
EINVAL == 22

Impls == {"mouse", "optimized"}
Layers == 0 .. (ZMK_KEYMAP_LAYERS_LEN - 1)
Insts == {0, 1}
NoTimer == -1

VARIABLES
  impl,                  \* which of the two implementations is compiled in
  config,                \* per instance: require_prior_idle_ms, excluded_positions
  data,                  \* per instance: toggle_layer, is_active, last_tapped_timestamp
  keymap_layers,         \* the layers the keymap reports active
  layer_disable_works,   \* per layer: expiry time of the pending work, or NoTimer
  now,                   \* k_uptime_get()
  last,                  \* history: the entry point that ran last
  hist,                  \* history: per layer, the controller's latest call on it
  scenario,              \* history: the kind of entry points delivered so far
  trigger_call           \* the trigger call in progress, when its statements
                         \* are interleaved with the other entry points

vars ==
  <<impl, config, data, keymap_layers, layer_disable_works, now, last, hist,
    scenario, trigger_call>>

(* --------------------------- configuration ----------------------------- *)
\* 1, 2, ..., n
Ascending(n) == [i \in 1 .. n |-> i]

\* s rotated right by k places
Rotate(s, k) ==
  [i \in 1 .. Len(s) |-> s[((i - 1 + Len(s) - (k % Len(s))) % Len(s)) + 1]]

\* DT_INST_PROP(n, excluded_positions): no duplicates, order as configured
ExclusionLists ==
  {<<>>, <<2, 1>>}
    \cup {Rotate(Ascending(SMALL_ARRAY_THRESHOLD + 1), k) : k \in 0 .. MaxRot}

\* DT_PROP(DT_DRV_INST(0), require_prior_idle_ms)
IdleThresholds == {0, MaxIdle}

\* The devicetree configurations explored: every threshold with the short
\* list, and every list with threshold 0 (the threshold is read by
\* should_quick_tap only, the list by the exclusion test only).
Configs ==
  {[idle |-> i, list |-> <<2, 1>>] : i \in IdleThresholds}
    \cup {[idle |-> 0, list |-> l] : l \in ExclusionLists}

\* queried positions: below every entry, the smallest and the largest entry,
\* above every entry of the long lists
Positions == {0, 1, SMALL_ARRAY_THRESHOLD + 1, SMALL_ARRAY_THRESHOLD + 2}

Range(s) == {s[i] : i \in 1 .. Len(s)}
(* --------------------------- pure functions ---------------------------- *)
SIZE_MAX == 2 ^ SizeBits - 1

\* size_t arithmetic: results are reduced modulo SIZE_MAX + 1
SizeT(x) == x % (SIZE_MAX + 1)

\* is_position_excluded (mouse): linear scan of the configured list
is_position_excluded(cfg, position) ==
  \E i \in 1 .. Len(cfg.excluded_positions) : cfg.excluded_positions[i] = position

\* The while loop of position_is_excluded, on 0-based indices left/right.
\* "oob" is a read of excluded_positions[mid] with mid >= num_positions.
RECURSIVE BinarySearch(_, _, _, _)
BinarySearch(list, position, left, right) ==
  IF ~(left <= right) THEN "false"
  ELSE LET mid == SizeT(left + right) \div 2 IN
       IF mid >= Len(list) THEN "oob"
       ELSE LET mid_val == list[mid + 1] IN
            IF mid_val = position THEN "true"
            ELSE IF mid_val < position
                 THEN BinarySearch(list, position, SizeT(mid + 1), right)
                 ELSE BinarySearch(list, position, left, SizeT(mid - 1))

\* position_is_excluded (optimized): "true", "false" or "oob"
position_is_excluded(cfg, position) ==
  LET list == cfg.excluded_positions
      num_positions == Len(list)
  IN IF num_positions = 0 THEN "false"
     ELSE IF num_positions > SMALL_ARRAY_THRESHOLD
          THEN BinarySearch(list, position, 0, SizeT(num_positions - 1))
          ELSE IF \E i \in 1 .. num_positions : list[i] = position
               THEN "true" ELSE "false"

\* The values the exclusion test of implementation im can return.  An
\* out-of-bounds read is undefined behaviour: either answer may come back.
ExcludedOutcomes(im, cfg, position) ==
  IF im = "mouse" THEN {is_position_excluded(cfg, position)}
  ELSE LET r == position_is_excluded(cfg, position) IN
       IF r = "oob" THEN BOOLEAN ELSE {r = "true"}

\* mutant: the boundary counted as a quick tap
should_quick_tap_inclusive(require_prior_idle_ms, last_tapped, current_time) ==
  (last_tapped + require_prior_idle_ms) >= current_time

\* mutant: the window ends one time unit early
should_quick_tap_short(require_prior_idle_ms, last_tapped, current_time) ==
  (last_tapped + require_prior_idle_ms) > current_time + 1

should_quick_tap(require_prior_idle_ms, last_tapped, current_time) ==
  (last_tapped + require_prior_idle_ms) > current_time

\* HID usages delivered by keycode events, <<usage_page, keycode>>: a
\* letter, two modifiers, and a consumer usage whose id lies in the
\* modifier range of the keyboard page
Modifiers == {"LEFT_CONTROL", "RIGHT_GUI"}
Keys == {<<"HID_USAGE_KEY", "A">>, <<"HID_USAGE_KEY", "LEFT_CONTROL">>,
         <<"HID_USAGE_CONSUMER", "RIGHT_GUI">>}

\* mutant: the usage page is not looked at
is_mod_any_page(usage_page, keycode) == keycode \in Modifiers

is_mod(usage_page, keycode) ==
  usage_page = "HID_USAGE_KEY" /\ keycode \in Modifiers

\* mutant: the bound check lets the layer count itself through
layer_out_of_range_off_by_one(param1) == param1 > ZMK_KEYMAP_LAYERS_LEN

\* the argument check of auto_layer_handle_event
layer_out_of_range(param1) == param1 >= ZMK_KEYMAP_LAYERS_LEN

(* ------------------------- platform primitives ------------------------- *)
Call(fn, layer) == [fn |-> fn, layer |-> layer]

zmk_keymap_layer_active(layers, layer) == layer \in layers
zmk_keymap_layer_activate(layers, layer) == layers \cup {layer}
zmk_keymap_layer_deactivate(layers, layer) == layers \ {layer}

\* mutant: k_work_schedule, which leaves a pending work as it is
k_work_schedule(works, layer, delay) ==
  IF works[layer] # NoTimer THEN works ELSE [works EXCEPT ![layer] = now + delay]

\* k_work_reschedule: one delayable work per layer; a new delay replaces
\* the pending one
k_work_reschedule(works, layer, delay) == [works EXCEPT ![layer] = now + delay]

\* scenario is "fresh" until a trigger or a position event is delivered,
\* "rearm" while all of them so far were valid triggers with a positive
\* delay for one and the same layer (the current toggle_layer), and "mixed"
\* from the first other trigger or position event on
AfterTrigger(sc, layer, param1, param2) ==
  IF /\ ~layer_out_of_range(param1) /\ param2 > 0
     /\ sc = "fresh" \/ (sc = "rearm" /\ layer = param1)
  THEN "rearm" ELSE "mixed"

\* no trigger call is in progress
NoCall == [pc |-> "idle", param1 |-> 0, param2 |-> 0, calls |-> <<>>]

\* mutant: the listeners and the work callback fetch the device defined last
DEVICE_DT_INST_GET_last(inst) == inst + 1

\* every listener and the work callback fetch the device of instance 0
DEVICE_DT_INST_GET(inst) == inst

(* ------------------------------- Init ---------------------------------- *)
\* auto_layer_init: is_active = false, last_tapped_timestamp = 0, the
\* zero-initialised toggle_layer, and no delayable work pending
InitData == [toggle_layer |-> 0, is_active |-> FALSE, last_tapped_timestamp |-> 0]

\* `last` records the entry point that ran last, its return value and the
\* platform calls it issued, and for the trigger and the work callback
\* their arguments; NoOp when the last step was not an entry point
Op(op, args, ret, calls) == [op |-> op, args |-> args, ret |-> ret, calls |-> calls]
NoOp == Op("none", <<>>, 0, <<>>)

\* hist[l] is "never" until the controller calls the keymap for layer l,
\* "held" after its activate(l), and "position" / "timer" after a
\* deactivate(l) issued by the position handler / the work callback
RECURSIVE HistAfter(_, _, _)
HistAfter(h, calls, by) ==
  IF calls = <<>> THEN h
  ELSE LET c == Head(calls) IN
       HistAfter([h EXCEPT ![c.layer] = IF c.fn = "activate" THEN "held" ELSE by],
                 Tail(calls), by)

Init ==
  /\ impl \in Impls
  /\ \E c \in Configs :
       config = [n \in Insts |->
                   [require_prior_idle_ms |-> c.idle,
                    excluded_positions |-> IF n = 0 THEN c.list ELSE <<>>]]
  /\ data = [n \in Insts |-> InitData]
  /\ keymap_layers = {}
  /\ layer_disable_works = [l \in Layers |-> NoTimer]
  /\ now = 0
  /\ last = NoOp
  /\ hist = [l \in Layers |-> "never"]
  /\ scenario = "fresh"
  /\ trigger_call = NoCall

(* ------------------------ layer state management ----------------------- *)
\* update_layer_state (optimized): the new controller state, the new
\* platform layer set and the platform calls issued
update_layer_state(state, layers, activate) ==
  IF state.is_active = activate
  THEN [state |-> state, layers |-> layers, calls |-> <<>>]
  ELSE IF activate
       THEN [state |-> [state EXCEPT !.is_active = TRUE],
             layers |-> zmk_keymap_layer_activate(layers, state.toggle_layer),
             calls |-> <<Call("activate", state.toggle_layer)>>]
       ELSE [state |-> [state EXCEPT !.is_active = FALSE],
             layers |-> zmk_keymap_layer_deactivate(layers, state.toggle_layer),
             calls |-> <<Call("deactivate", state.toggle_layer)>>]

\* mutant: the callback does not ask the keymap whether the layer is active
LayerDisable_unguarded(im, state, layers, layer_index) ==
  IF im = "mouse"
  THEN [state |-> [state EXCEPT !.is_active = FALSE],
        layers |-> zmk_keymap_layer_deactivate(layers, layer_index),
        calls |-> <<Call("deactivate", layer_index)>>]
  ELSE update_layer_state(state, layers, FALSE)

\* body of layer_disable_cb (mouse) / layer_disable_callback (optimized),
\* always on the data of instance 0
LayerDisable(im, state, layers, layer_index) ==
  IF ~zmk_keymap_layer_active(layers, layer_index)
  THEN [state |-> state, layers |-> layers, calls |-> <<>>]
  ELSE IF im = "mouse"
       THEN [state |-> [state EXCEPT !.is_active = FALSE],
             layers |-> zmk_keymap_layer_deactivate(layers, layer_index),
             calls |-> <<Call("deactivate", layer_index)>>]
       ELSE update_layer_state(state, layers, FALSE)

\* body of handle_position_state_changed once the exclusion test has
\* answered `excluded`
PositionChanged(im, state, layers, pressed, excluded) ==
  IF pressed /\ state.is_active /\ ~excluded
  THEN IF im = "mouse"
       THEN [state |-> [state EXCEPT !.is_active = FALSE],
             layers |-> zmk_keymap_layer_deactivate(layers, state.toggle_layer),
             calls |-> <<Call("deactivate", state.toggle_layer)>>]
       ELSE update_layer_state(state, layers, FALSE)
  ELSE [state |-> state, layers |-> layers, calls |-> <<>>]

\* mutant: the activation step does not look at is_active
Activation_reactivates(im, state, layers, idle, current_time) ==
  IF ~should_quick_tap(idle, state.last_tapped_timestamp, current_time)
  THEN IF im = "mouse"
       THEN [state |-> [state EXCEPT !.is_active = TRUE],
             layers |-> zmk_keymap_layer_activate(layers, state.toggle_layer),
             calls |-> <<Call("activate", state.toggle_layer)>>]
       ELSE update_layer_state(state, layers, TRUE)
  ELSE [state |-> state, layers |-> layers, calls |-> <<>>]

\* the activation step of auto_layer_handle_event, after toggle_layer is set
Activation(im, state, layers, idle, current_time) ==
  IF ~state.is_active /\ ~should_quick_tap(idle, state.last_tapped_timestamp, current_time)
  THEN IF im = "mouse"
       THEN [state |-> [state EXCEPT !.is_active = TRUE],
             layers |-> zmk_keymap_layer_activate(layers, state.toggle_layer),
             calls |-> <<Call("activate", state.toggle_layer)>>]
       ELSE update_layer_state(state, layers, TRUE)
  ELSE [state |-> state, layers |-> layers, calls |-> <<>>]

\* mutant: a zero delay cancels the pending work
Rearm_zero_cancels(works, param1, param2) ==
  IF param2 > 0
  THEN k_work_reschedule(works, param1, param2)
  ELSE [works EXCEPT ![param1] = NoTimer]

\* the last statement of auto_layer_handle_event: rearm only if param2 > 0
Rearm(works, param1, param2) ==
  IF param2 > 0
  THEN k_work_reschedule(works, param1, param2)
  ELSE works

(* ------------------------------ actions -------------------------------- *)
\* the trigger of instance 0 is recorded as "trigger", the trigger of any
\* other instance as "trigger_other"
TriggerOp(dev) == IF dev = 0 THEN "trigger" ELSE "trigger_other"

\* auto_layer_handle_event(dev, event, param1, param2, state); hist and
\* scenario follow the calls of instance 0
auto_layer_handle_event(dev, param1, param2) ==
  /\ param2 > 0 => now + param2 <= MaxTime
  /\ IF layer_out_of_range(param1)
     THEN /\ last' = Op(TriggerOp(dev), <<param1, param2>>, -EINVAL, <<>>)
          /\ UNCHANGED <<data, keymap_layers, layer_disable_works, hist>>
     ELSE LET set == [data[dev] EXCEPT !.toggle_layer = param1]
              r == Activation(impl, set, keymap_layers,
                              config[dev].require_prior_idle_ms, now)
          IN /\ data' = [data EXCEPT ![dev] = r.state]
             /\ keymap_layers' = r.layers
             /\ layer_disable_works' = Rearm(layer_disable_works, param1, param2)
             /\ last' = Op(TriggerOp(dev), <<param1, param2>>, 0, r.calls)
             /\ hist' = IF dev = 0 THEN HistAfter(hist, r.calls, "trigger") ELSE hist
  /\ scenario' = IF dev = 0
                 THEN AfterTrigger(scenario, data[dev].toggle_layer, param1, param2)
                 ELSE scenario
  /\ UNCHANGED <<impl, config, now, trigger_call>>

\* mutant: the position handler cancels the work of the layer it deactivates
handle_position_state_changed_cancels(position, pressed) ==
  /\ \E excluded \in ExcludedOutcomes(impl, config[DEVICE_DT_INST_GET(0)], position) :
       LET dev == DEVICE_DT_INST_GET(0)
           r == PositionChanged(impl, data[dev], keymap_layers, pressed, excluded)
       IN /\ data' = [data EXCEPT ![dev] = r.state]
          /\ keymap_layers' = r.layers
          /\ last' = Op("position", <<>>, 0, r.calls)
          /\ hist' = HistAfter(hist, r.calls, "position")
          /\ layer_disable_works' =
               [l \in Layers |->
                  IF \E i \in 1 .. Len(r.calls) : r.calls[i].layer = l
                  THEN NoTimer ELSE layer_disable_works[l]]
  /\ scenario' = "mixed"
  /\ UNCHANGED <<impl, config, now, trigger_call>>

\* handle_position_state_changed: reads and writes instance 0
handle_position_state_changed(position, pressed) ==
  /\ \E excluded \in ExcludedOutcomes(impl, config[DEVICE_DT_INST_GET(0)], position) :
       LET dev == DEVICE_DT_INST_GET(0)
           r == PositionChanged(impl, data[dev], keymap_layers, pressed, excluded)
       IN /\ data' = [data EXCEPT ![dev] = r.state]
          /\ keymap_layers' = r.layers
          /\ last' = Op("position", <<>>, 0, r.calls)
          /\ hist' = HistAfter(hist, r.calls, "position")
  /\ scenario' = "mixed"
  /\ UNCHANGED <<impl, config, layer_disable_works, now, trigger_call>>

\* handle_keycode_state_changed: reads and writes instance 0
handle_keycode_state_changed(usage_page, keycode, pressed, timestamp) ==
  /\ data' = IF pressed /\ ~is_mod(usage_page, keycode)
             THEN [data EXCEPT ![DEVICE_DT_INST_GET(0)].last_tapped_timestamp = timestamp]
             ELSE data
  /\ last' = Op("keycode", <<>>, 0, <<>>)
  /\ UNCHANGED <<impl, config, keymap_layers, layer_disable_works, now, hist,
                 scenario, trigger_call>>

\* the delayable work of layer_index expires and its callback runs
layer_disable_cb(layer_index) ==
  /\ layer_disable_works[layer_index] # NoTimer
  /\ layer_disable_works[layer_index] <= now
  /\ LET dev == DEVICE_DT_INST_GET(0)
         r == LayerDisable(impl, data[dev], keymap_layers, layer_index)
     IN /\ data' = [data EXCEPT ![dev] = r.state]
        /\ keymap_layers' = r.layers
        /\ last' = Op("timer", <<layer_index>>, 0, r.calls)
        /\ hist' = HistAfter(hist, r.calls, "timer")
  /\ layer_disable_works' = [layer_disable_works EXCEPT ![layer_index] = NoTimer]
  /\ UNCHANGED <<impl, config, now, scenario, trigger_call>>

\* k_uptime_get() advances; an expired work runs before time moves on
Tick ==
  /\ now < MaxTime
  /\ \A l \in Layers :
       layer_disable_works[l] = NoTimer \/ layer_disable_works[l] > now
  /\ now' = now + 1
  /\ last' = NoOp
  /\ UNCHANGED <<impl, config, data, keymap_layers, layer_disable_works, hist,
                 scenario, trigger_call>>

Trigger ==
  \E param1 \in 0 .. ZMK_KEYMAP_LAYERS_LEN, param2 \in 0 .. MaxDelay :
    auto_layer_handle_event(0, param1, param2)

Position ==
  \E position \in Positions, pressed \in BOOLEAN :
    handle_position_state_changed(position, pressed)

Keycode ==
  \E key \in Keys, pressed \in BOOLEAN, timestamp \in (now - MaxLag) .. now :
    /\ timestamp >= 0
    /\ handle_keycode_state_changed(key[1], key[2], pressed, timestamp)

Timer == \E layer_index \in Layers : layer_disable_cb(layer_index)

Next == Trigger \/ Position \/ Keycode \/ Timer \/ Tick

Spec == Init /\ [][Next]_vars

(* ======================= properties of the code ======================== *)
Idle == ~data[0].is_active
Active == data[0].is_active
IdleThreshold == config[0].require_prior_idle_ms
LastTap == data[0].last_tapped_timestamp
TargetLayer == data[0].toggle_layer

\* the step is a call of the trigger entry point of instance 0 with a valid
\* layer index
ValidTriggerStep(param1, param2) ==
  /\ last'.op = "trigger"
  /\ last'.args = <<param1, param2>>
  /\ param1 \in Layers

\* C1: a trigger with a valid target layer, delivered while Idle at a time
\* now with now - last_tap_time >= idle_threshold, sets active and issues
\* exactly activate(target_layer); the tie now = last_tap_time +
\* idle_threshold and idle_threshold = 0 are included.
C1_TriggerActivatesWhenGuardOff ==
  [][\A param1 \in Layers, param2 \in 0 .. MaxDelay :
       (ValidTriggerStep(param1, param2) /\ Idle /\ now - LastTap >= IdleThreshold)
         => /\ data'[0].is_active
            /\ data'[0].toggle_layer = param1
            /\ last'.calls = <<Call("activate", param1)>>
            /\ param1 \in keymap_layers']_vars

\* a trigger has just activated the layer exactly on the tie, threshold > 0
C1_Witness ==
  /\ last.op = "trigger" /\ last.calls = <<Call("activate", TargetLayer)>>
  /\ Active
  /\ IdleThreshold > 0
  /\ LastTap > 0
  /\ now = LastTap + IdleThreshold

TimerStep(layer_index) ==
  /\ last'.op = "timer"
  /\ last'.args = <<layer_index>>

Issued(calls, fn) == {calls[i].layer : i \in {j \in 1 .. Len(calls) : calls[j].fn = fn}}

\* the step is a position event of the given position and state
PositionStep(position, pressed) ==
  /\ last'.op = "position"
  /\ handle_position_state_changed(position, pressed)

\* C3: for every configured exclusion list S and every position p, while
\* the controller is Active a key-down at p in S leaves it Active and issues
\* no deactivate call, and a key-down at p not in S clears active and issues
\* deactivate(target_layer).
C3_KeyDownDeactivatesIffNotExcluded ==
  [][\A position \in Positions :
       (PositionStep(position, TRUE) /\ Active)
         => IF position \in Range(config[0].excluded_positions)
            THEN /\ data'[0].is_active
                 /\ last'.calls = <<>>
            ELSE /\ ~data'[0].is_active
                 /\ last'.calls = <<Call("deactivate", TargetLayer)>>]_vars

\* C4: a trigger whose target layer is not below the layer count returns
\* -EINVAL and has no side effect: controller state, platform layers and
\* delayable works are unchanged and no platform call is issued.
C4_InvalidLayerRejectedWithoutEffect ==
  [][(/\ last'.op = "trigger"
      /\ last'.args[1] \notin Layers)
       => /\ last'.ret = -EINVAL
          /\ last'.calls = <<>>
          /\ UNCHANGED <<data, keymap_layers, layer_disable_works>>]_vars

\* an out-of-range trigger has just been rejected while the controller was
\* Active with a work pending
C4_Witness ==
  /\ last.op = "trigger" /\ last.ret = -EINVAL
  /\ Active
  /\ \E l \in Layers : layer_disable_works[l] # NoTimer

\* C6: in every reachable state, active implies that the controller has
\* issued activate for the layer now stored in target_layer and has not
\* since issued deactivate for it.
C6_ActiveImpliesTargetHeld ==
  Active => hist[TargetLayer] = "held"

ReschedulingReplaces ==
  /\ \A param1 \in Layers, param2 \in 1 .. MaxDelay :
       ValidTriggerStep(param1, param2)
         => layer_disable_works' =
              [layer_disable_works EXCEPT ![param1] = now + param2]
  /\ \A layer_index \in Layers :
       TimerStep(layer_index)
         => /\ layer_disable_works[layer_index] = now
            /\ layer_disable_works' =
                 [layer_disable_works EXCEPT ![layer_index] = NoTimer]

\* C8 as claimed: for any sequence of triggers for the same layer L with a
\* positive delay, the one pending work of L expires at the time of the most
\* recent trigger plus its delay, and absent position events its expiry
\* deactivates L exactly once.
C8_RearmThenExactlyOneDeactivation ==
  [][/\ ReschedulingReplaces
     /\ \A layer_index \in Layers :
          (TimerStep(layer_index) /\ scenario = "rearm")
            => /\ last'.calls = <<Call("deactivate", layer_index)>>
               /\ ~data'[0].is_active]_vars

\* C8 amended: for any sequence of triggers for the same layer L with a
\* positive delay, the one pending work of L expires at the time of the most
\* recent trigger plus its delay, and absent position events its expiry
\* deactivates L exactly once if one of the triggers activated L (a work is
\* then pending until it does), and not at all if the quick-tap guard
\* suppressed every one of them; nothing else deactivates.
C8_RearmThenOneDeactivationIfActivated ==
  [][/\ ReschedulingReplaces
     /\ \A layer_index \in Layers :
          (TimerStep(layer_index) /\ scenario = "rearm")
            => /\ layer_index = TargetLayer
               /\ last'.calls = IF Active THEN <<Call("deactivate", layer_index)>>
                                ELSE <<>>
               /\ ~data'[0].is_active
               /\ layer_index \notin keymap_layers'
     /\ (scenario = "rearm" /\ scenario' = "rearm" /\ last'.op # "timer")
            => Issued(last'.calls, "deactivate") = {}
     /\ (scenario' = "rearm" /\ data'[0].is_active)
            => layer_disable_works'[data'[0].toggle_layer] # NoTimer]_vars

\* only triggers with a positive delay for one layer have been delivered,
\* the threshold is positive, and the work of that layer has just run and
\* issued the one deactivate call
C8_Witness ==
  /\ scenario = "rearm"
  /\ IdleThreshold > 0
  /\ last.op = "timer" /\ last.calls = <<Call("deactivate", TargetLayer)>>
  /\ hist[TargetLayer] = "timer"
  /\ Idle

\* C9: a valid trigger with delay 0 leaves every delayable work as it was;
\* a pending work is removed by nothing but its own callback, which runs at
\* its expiry time; and while no work is pending, a deactivate call can only
\* come from the position handler.
C9_ZeroDelayLeavesWorksAlone ==
  [][/\ \A param1 \in Layers :
          ValidTriggerStep(param1, 0) => layer_disable_works' = layer_disable_works
     /\ \A l \in Layers :
          (layer_disable_works[l] # NoTimer /\ layer_disable_works'[l] # layer_disable_works[l])
            => \/ TimerStep(l) /\ layer_disable_works[l] = now
               \/ \E param2 \in 1 .. MaxDelay : ValidTriggerStep(l, param2)
     /\ ((\A l \in Layers : layer_disable_works[l] = NoTimer)
           /\ Issued(last'.calls, "deactivate") # {})
            => last'.op = "position"]_vars

\* a trigger with delay 0 has just run while the work of its layer, armed by
\* an earlier trigger, was pending, and the work is still pending
C9_Witness ==
  /\ last.op = "trigger" /\ last.ret = 0 /\ last.args[2] = 0
  /\ layer_disable_works[last.args[1]] # NoTimer

(* ----------------------- liveness of auto release ---------------------- *)
\* The work queue runs every expired work and the clock keeps advancing
\* (up to MaxTime, after which no work is pending and none can be armed).
SpecLive == Init /\ [][Next]_vars /\ WF_vars(Timer) /\ WF_vars(Tick)

\* a trigger with a positive delay has just activated layer l
TimedActivation(l) ==
  /\ last.op = "trigger" /\ last.args[1] = l /\ last.args[2] > 0
  /\ last.calls = <<Call("activate", l)>>

\* C10: whenever a trigger with a positive delay activates layer L, the
\* controller eventually returns to Idle and eventually issues
\* deactivate(L), whatever position events, keycode events and other
\* triggers arrive in between.
C10_TimedActivationIsReleased ==
  \A l \in Layers :
    /\ TimedActivation(l) ~> Idle
    /\ TimedActivation(l) ~> (hist[l] # "held")

(* --------------- the trigger interleaved with the handlers ------------- *)
\* Neither implementation takes a lock.  The trigger is called from the
\* input subsystem while the event listeners and the work callbacks run on
\* the work queue, so the statements of auto_layer_handle_event may be
\* interleaved with whole runs of the other three entry points.
\* trigger_call.pc walks through the statements of one call:
\*   "store"  data->toggle_layer = param1
\*   "guard"  !is_active && !should_quick_tap(..., k_uptime_get())
\*   "set"    is_active = true
\*   "call"   zmk_keymap_layer_activate(toggle_layer)
\*   "arm"    if (param2 > 0) k_work_reschedule(...); return 0
TriggerEnter(param1, param2) ==
  /\ trigger_call.pc = "idle"
  /\ param2 > 0 => now + param2 <= MaxDelay
  /\ IF layer_out_of_range(param1)
     THEN /\ last' = Op("trigger", <<param1, param2>>, -EINVAL, <<>>)
          /\ UNCHANGED trigger_call
     ELSE /\ trigger_call' = [pc |-> "store", param1 |-> param1, param2 |-> param2,
                              calls |-> <<>>]
          /\ UNCHANGED last
  /\ scenario' = "mixed"
  /\ UNCHANGED <<impl, config, data, keymap_layers, layer_disable_works, now, hist>>

TriggerStore ==
  /\ trigger_call.pc = "store"
  /\ data' = [data EXCEPT ![0].toggle_layer = trigger_call.param1]
  /\ trigger_call' = [trigger_call EXCEPT !.pc = "guard"]
  /\ UNCHANGED <<impl, config, keymap_layers, layer_disable_works, now, last, hist,
                 scenario>>

TriggerGuard ==
  /\ trigger_call.pc = "guard"
  /\ trigger_call' =
       [trigger_call EXCEPT !.pc =
          IF /\ ~data[0].is_active
             /\ ~should_quick_tap(config[0].require_prior_idle_ms,
                                  data[0].last_tapped_timestamp, now)
          THEN "set" ELSE "arm"]
  /\ UNCHANGED <<impl, config, data, keymap_layers, layer_disable_works, now, last,
                 hist, scenario>>

\* mouse: is_active = true.  optimized: update_layer_state returns early if
\* is_active is already true.
TriggerSet ==
  /\ trigger_call.pc = "set"
  /\ IF impl = "optimized" /\ data[0].is_active
     THEN /\ trigger_call' = [trigger_call EXCEPT !.pc = "arm"]
          /\ UNCHANGED data
     ELSE /\ data' = [data EXCEPT ![0].is_active = TRUE]
          /\ trigger_call' = [trigger_call EXCEPT !.pc = "call"]
  /\ UNCHANGED <<impl, config, keymap_layers, layer_disable_works, now, last, hist,
                 scenario>>

TriggerCall ==
  /\ trigger_call.pc = "call"
  /\ LET c == <<Call("activate", data[0].toggle_layer)>>
     IN /\ keymap_layers' = zmk_keymap_layer_activate(keymap_layers, data[0].toggle_layer)
        /\ hist' = HistAfter(hist, c, "trigger")
        /\ trigger_call' = [trigger_call EXCEPT !.pc = "arm", !.calls = c]
  /\ UNCHANGED <<impl, config, data, layer_disable_works, now, last, scenario>>

TriggerArm ==
  /\ trigger_call.pc = "arm"
  /\ layer_disable_works' =
       Rearm(layer_disable_works, trigger_call.param1, trigger_call.param2)
  /\ last' = Op("trigger", <<trigger_call.param1, trigger_call.param2>>, 0,
                trigger_call.calls)
  /\ trigger_call' = NoCall
  /\ UNCHANGED <<impl, config, data, keymap_layers, now, hist, scenario>>

TriggerBegin ==
  \E param1 \in 0 .. ZMK_KEYMAP_LAYERS_LEN, param2 \in 0 .. MaxDelay :
    TriggerEnter(param1, param2)

\* one devicetree configuration per implementation is enough here
InitInterleaved ==
  /\ Init
  /\ config[0].require_prior_idle_ms = 0
  /\ config[0].excluded_positions = <<2, 1>>

\* the clock is followed for the longest delay only
TickInterleaved == now < MaxDelay /\ Tick

NextInterleaved ==
  \/ TriggerBegin \/ TriggerStore \/ TriggerGuard \/ TriggerSet \/ TriggerCall
  \/ TriggerArm
  \/ Position \/ Keycode \/ Timer \/ TickInterleaved

SpecInterleaved == InitInterleaved /\ [][NextInterleaved]_vars

\* C5: the entry points execute as critical sections over the controller
\* state; in particular no position event and no work callback reads or
\* writes the controller state between the trigger's guard check and its
\* activate call, so none can clear is_active there.
C5_TriggerIsCriticalSection ==
  [][trigger_call.pc \in {"set", "call"}
       => ~(last'.op \in {"position", "timer"} /\ data' # data)]_vars

(* --------------------- the exclusion lookup itself --------------------- *)
\* the answer of a linear membership scan of the configured list
LinearScan(list, position) ==
  IF position \in Range(list) THEN "true" ELSE "false"

\* C11: for every configured exclusion list (empty, short, or longer than
\* SMALL_ARRAY_THRESHOLD, in the order configured) and every position,
\* position_is_excluded answers what a linear membership scan of the same
\* list answers, which is also what is_position_excluded answers; an empty
\* list always answers "not excluded".
C11_LookupsAgree ==
  \A position \in Positions :
    LET cfg == config[0] IN
      /\ position_is_excluded(cfg, position) = LinearScan(cfg.excluded_positions, position)
      /\ ExcludedOutcomes("optimized", cfg, position)
           = ExcludedOutcomes("mouse", cfg, position)
      /\ cfg.excluded_positions = <<>>
           => ExcludedOutcomes(impl, cfg, position) = {FALSE}

(* ------------------- triggers that do not activate -------------------- *)
\* C13: a trigger with a valid target layer and a positive delay that the
\* quick-tap guard suppresses, or that arrives while Active, still stores
\* the target layer and arms (or rearms) the work of that layer, leaves
\* active and the keymap as they were and issues no activate call; and a
\* work armed that way ends a later activation of the layer: when it expires
\* while the controller holds the layer as its target, it deactivates it.
C13_SuppressedTriggerStillArms ==
  [][/\ \A param1 \in Layers, param2 \in 1 .. MaxDelay :
          (ValidTriggerStep(param1, param2)
             /\ (Active \/ now - LastTap < IdleThreshold))
            => /\ data'[0].toggle_layer = param1
               /\ layer_disable_works' =
                    [layer_disable_works EXCEPT ![param1] = now + param2]
               /\ data'[0].is_active = data[0].is_active
               /\ last'.calls = <<>>
               /\ keymap_layers' = keymap_layers
     /\ \A layer_index \in Layers :
          (TimerStep(layer_index) /\ Active /\ TargetLayer = layer_index
             /\ hist[layer_index] = "held")
            => /\ last'.calls = <<Call("deactivate", layer_index)>>
               /\ ~data'[0].is_active
               /\ layer_index \notin keymap_layers']_vars

\* A work has just deactivated its layer at time MaxIdle under the threshold
\* MaxIdle.  Every trigger before that time was suppressed (the last tap is
\* never later than the trigger), so the work was armed by a suppressed
\* trigger, and the layer was activated at time MaxIdle by a trigger with
\* delay 0 (a positive delay would have moved the expiry past MaxIdle).
C13_Witness ==
  /\ IdleThreshold = MaxIdle
  /\ now = MaxIdle
  /\ last.op = "timer"
  /\ last.calls = <<Call("deactivate", last.args[1])>>
  /\ Idle

(* --------------------- what the listeners leave alone ------------------ *)
\* the step is a keycode event with the given fields
KeycodeStep(usage_page, keycode, pressed, timestamp) ==
  /\ last'.op = "keycode"
  /\ handle_keycode_state_changed(usage_page, keycode, pressed, timestamp)

\* the keyboard-page usages from LEFT_CONTROL to RIGHT_GUI are the modifiers
ModifierKeys == {key \in Keys : key[1] = "HID_USAGE_KEY" /\ key[2] \in Modifiers}

\* C14: a keycode event sets last_tap_time to its timestamp exactly when it
\* is a key-down of a non-modifier keycode; for key-up events and modifier
\* keycodes last_tap_time is unchanged; in every case active, target_layer,
\* the keymap and all works are unchanged and no activate or deactivate
\* call is issued.
C14_KeycodeOnlyRecordsTaps ==
  [][last'.op = "keycode"
       => /\ \A key \in Keys, pressed \in BOOLEAN, timestamp \in (now - MaxLag) .. now :
               KeycodeStep(key[1], key[2], pressed, timestamp)
                 => data'[0].last_tapped_timestamp =
                      IF pressed /\ key \notin ModifierKeys THEN timestamp ELSE LastTap
          /\ data'[0].is_active = data[0].is_active
          /\ data'[0].toggle_layer = data[0].toggle_layer
          /\ data'[1] = data[1]
          /\ keymap_layers' = keymap_layers
          /\ layer_disable_works' = layer_disable_works
          /\ last'.calls = <<>>]_vars

\* a keycode event has just run while the controller was Active with a work
\* pending, and the tap recorded carries the current time
C14_Witness ==
  /\ last.op = "keycode"
  /\ LastTap = now /\ now > 0
  /\ Active
  /\ layer_disable_works[TargetLayer] > now

\* C15: a position event changes nothing (active, target_layer,
\* last_tap_time and the keymap unchanged, no deactivate call) when it is a
\* key-up, when the controller is Idle, or when its position is in the
\* configured exclusion list; and no position event ever activates a layer
\* or modifies last_tap_time or target_layer.
C15_PositionOnlyDeactivates ==
  [][last'.op = "position"
       => /\ \A position \in Positions, pressed \in BOOLEAN :
               (/\ PositionStep(position, pressed)
                /\ \/ ~pressed
                   \/ Idle
                   \/ position \in Range(config[0].excluded_positions))
                 => /\ data' = data
                    /\ keymap_layers' = keymap_layers
                    /\ last'.calls = <<>>
          /\ data'[0].last_tapped_timestamp = LastTap
          /\ data'[0].toggle_layer = TargetLayer
          /\ data'[0].is_active => Active
          /\ keymap_layers' \subseteq keymap_layers
          /\ Issued(last'.calls, "activate") = {}]_vars

\* C16: after construction (last_tap_time = 0, active = false),
\* last_tap_time never decreases over any sequence of keycode, position,
\* trigger and timer events, whatever timestamps the keycode events carry.
C16_LastTapNeverDecreases ==
  [][data'[0].last_tapped_timestamp >= data[0].last_tapped_timestamp]_vars

(* ----------------------- whose layer is released ----------------------- *)
\* C17: every deactivate(L) the controller issues, from the position
\* handler or from the work callback, is for a layer L for which it earlier
\* issued activate(L) with no deactivate(L) since; it never deactivates a
\* layer it did not activate, also when target_layer was overwritten by a
\* later trigger or when the work of a layer other than target_layer runs.
C17_DeactivatesOnlyHeldLayers ==
  [][\A l \in Issued(last'.calls, "deactivate") : hist[l] = "held"]_vars

(* ------------------- the indices the search reads ---------------------- *)
\* C18: for every exclusion list with more than SMALL_ARRAY_THRESHOLD
\* entries and every position queried (a position smaller than every entry
\* in particular), the binary search of position_is_excluded, run by the
\* position handler for a key-down while Active, terminates having read
\* only indices in [0, num_positions): right = mid - 1 never wraps.
C18_BinarySearchStaysInBounds ==
  [][(impl = "optimized" /\ last'.op = "position" /\ Active)
       => \A position \in Positions :
            (/\ Len(config[0].excluded_positions) > SMALL_ARRAY_THRESHOLD
             /\ PositionStep(position, TRUE))
              => position_is_excluded(config[0], position) # "oob"]_vars

(* ------------------------- the stale work ------------------------------ *)
\* C19: the position handler and the keycode handler never arm, rearm or
\* cancel a work: after a position event has deactivated the layer, the work
\* armed by the earlier trigger stays pending with its expiry time; a
\* trigger with delay 0 that re-activates the layer leaves it pending too;
\* and when that work then expires while the controller holds the layer, its
\* callback deactivates the new activation.
C19_PositionLeavesWorkPending ==
  [][/\ last'.op \in {"position", "keycode"}
          => layer_disable_works' = layer_disable_works
     /\ \A l \in Layers :
          (ValidTriggerStep(l, 0) /\ hist[l] = "position")
            => layer_disable_works' = layer_disable_works
     /\ \A l \in Layers :
          (TimerStep(l) /\ l \in keymap_layers /\ hist[l] = "held"
             /\ Active /\ TargetLayer = l)
            => /\ layer_disable_works[l] = now
               /\ Issued(last'.calls, "deactivate") = {l}
               /\ ~data'[0].is_active
               /\ l \notin keymap_layers']_vars

\* A trigger with delay 0 has just activated layer l while the work of l was
\* pending, with no idle threshold and the controller never having called
\* the keymap for another layer.  The trigger that armed the work left the
\* controller Active with target l, so since then the position handler has
\* deactivated l (nothing else could: the work of l has not run), and the
\* work is still pending for the new activation.
C19_Witness ==
  /\ IdleThreshold = 0
  /\ last.op = "trigger" /\ last.ret = 0 /\ last.args[2] = 0
  /\ last.calls = <<Call("activate", last.args[1])>>
  /\ layer_disable_works[last.args[1]] # NoTimer
  /\ \A l \in Layers \ {last.args[1]} : hist[l] = "never"

(* ------------------ more than one controller instance ------------------ *)
\* AUTO_LAYER_INST defines one device per devicetree instance.  Every
\* instance has its own data and config, and all of them share the keymap
\* and the pool layer_disable_works, which is indexed by layer alone.
\* Here the trigger of instance 1 is delivered as well.
TriggerOther ==
  \E param1 \in 0 .. ZMK_KEYMAP_LAYERS_LEN, param2 \in 0 .. MaxDelay :
    auto_layer_handle_event(1, param1, param2)

\* one devicetree configuration per implementation: no idle threshold,
\* the short exclusion list
InitInstances ==
  /\ Init
  /\ config[0].require_prior_idle_ms = 0
  /\ config[0].excluded_positions = <<2, 1>>

NextInstances ==
  Trigger \/ TriggerOther \/ Position \/ Keycode \/ Timer \/ TickInterleaved

SpecInstances == InitInstances /\ [][NextInstances]_vars

\* C12: the work callback of layer L issues a deactivate call and clears
\* active only when the keymap reports L active and the controller's active
\* flag is true; when the flag is false (L is active because something other
\* than this controller activated it) or L is not active, the callback
\* issues no deactivate call and changes no state.
C12_TimerNeedsLayerAndFlag ==
  [][\A layer_index \in Layers :
       (TimerStep(layer_index) /\ ~(layer_index \in keymap_layers /\ Active))
         => /\ last'.calls = <<>>
            /\ data' = data
            /\ keymap_layers' = keymap_layers]_vars

\* C20: with more than one instance defined, the position handler, the
\* keycode handler and the work callback write only the state of instance
\* 0 and no configuration; the state of another instance is changed by
\* nothing but its own trigger, so neither a non-excluded key-down nor an
\* expiring work ever clears the active flag of an instance other than 0.
C20_HandlersTouchInstanceZeroOnly ==
  [][/\ last'.op \in {"position", "keycode", "timer"} => data'[1] = data[1]
     /\ data'[1] # data[1] => last'.op = "trigger_other"
     /\ config' = config]_vars

\* a key-down or an expiring work has just deactivated the layer that
\* instance 1 activated and targets, and instance 1 is still flagged active
C20_Witness ==
  /\ last.op \in {"position", "timer"}
  /\ last.calls = <<Call("deactivate", data[1].toggle_layer)>>
  /\ data[1].is_active
  /\ hist[data[1].toggle_layer] \in {"position", "timer"}
  /\ ~data[0].is_active

====
